---------------------------- MODULE Spec2Model ----------------------------
(***************************************************************************)
(* react-state-sync: createSyncState.                                      *)
(*                                                                         *)
(* One instance of createSyncState per browser tab, all tabs sharing the   *)
(* origin's Storage areas.  An instance owns the closure variables `value` *)
(* and `updaters`; every useSyncValue call site (a "hook") owns a React    *)
(* state cell, a mapper ref and a stable stateUpdater callback.  The       *)
(* browser delivers a StorageEvent to every other tab when an item of a    *)
(* Storage area changes; delivery is a separate task of the receiving      *)
(* tab's event loop.                                                       *)
(*                                                                         *)
(* The repository holds two builds of createSyncState:                     *)
(*   "ts"  : src/src/createSyncState.ts  (no getInitialValue, no onInit)   *)
(*   "lib" : src/unnamed/part_000        (getInitialValue, onInit)         *)
(* and declares a third, src/unnamed/part_001 lines 34-50, whose body is   *)
(* not in the repository's sources:                                        *)
(*   "next": the lib build with the onUpdate option                        *)
(* `build` selects the one every tab runs.                                 *)
(***************************************************************************)
EXTENDS Integers, Sequences, FiniteSets, TLC

\* ------------------------------------------------------------------ bounds
NumTabs == 2
NumHooks == 2
MaxVal == 1
MaxPending == 1
MaxForeign == 1

Tabs == 1..NumTabs
Hooks == 1..NumHooks
Values == 0..MaxVal

\* ------------------------------------------------------- values and codec
\* JavaScript null as a deserialize() result
NullValue == -1
\* deserialize() raised (JSON.parse on malformed text)
ThrowMark == -2

\* Storage.getItem() of an absent item, StorageEvent.newValue of a removal
NoItem == "<no item>"

Digits == <<"0", "1", "2", "3", "4", "5", "6", "7", "8", "9">>

\* serialize = JSON.stringify, on the numbers of the model
Serialize(v) == Digits[v + 1]

\* deserialize = stringValue => JSON.parse(stringValue || 'null')
Deserialize(raw) ==
    IF raw = NoItem \/ raw = "" THEN NullValue
    ELSE IF raw = "null" THEN NullValue
    ELSE IF \E i \in 1..Len(Digits) : Digits[i] = raw
         THEN (CHOOSE i \in 1..Len(Digits) : Digits[i] = raw) - 1
         ELSE ThrowMark

\* ------------------------------------------------------------ options
NoStorage == "<no storage>"
NoKey == "<no key>"
\* `storage`: absent/false, window.localStorage, or an object that implements
\* the Storage interface without being an instance of the Storage class
StorageOptions == {NoStorage, "local", "mock"}

\* storage instanceof Storage
IsStorageInstance(st) == st \in {"local", "session"}
KeyOptions == {NoKey, "k"}

\* the items of the origin's Storage areas: <<storageArea, key>>
Cells == {<<"local", "k">>, <<"local", "other">>, <<"session", "k">>, <<"mock", "k">>}

\* the items other contexts of the origin can write
SharedCells == {c \in Cells : IsStorageInstance(c[1])}

\* what another context of the origin may store under an item (NoItem: removeItem)
ForeignRaws(cell) ==
    IF cell = <<"local", "k">>
    THEN {Serialize(v) : v \in Values} \cup {"null", "{bad", NoItem}
    ELSE {Serialize(MaxVal), NoItem}

\* mappers passed to useSyncValue: none, or a projection
NoMapper == "none"
Mappers == {NoMapper, "double"}
Project(m, v) == IF m = "double" THEN 2 * v ELSE v

\* arguments of setSyncValue: a literal value, or an updater function
Updaters == {"inc"}
SetArgs == [fn : {FALSE}, lit : Values, name : {"-"}]
             \cup [fn : {TRUE}, lit : {0}, name : Updaters]
ApplyFn(name, old) == IF name = "inc" THEN (old + 1) % (MaxVal + 1) ELSE old

\* ------------------------------------------------------------------ state
VARIABLES
    build,      \* "ts" | "lib" | "next": the build of createSyncState in use
    store,      \* Cells -> raw string | NoItem : the Storage areas
    status,     \* tab -> "none" | "live" | "failed" : createSyncState called?
    cfg,        \* tab -> [storage, key, defaultValue] : the options
    value,      \* tab -> the closure's `value`
    updaters,   \* tab -> the closure's `updaters` array (hook ids, in order)
    listening,  \* tab -> is storageEventListener added to window?
    hooks,      \* tab -> hook -> [phase, mapper, state]
    pending,    \* tab -> StorageEvents queued for the tab, oldest first
    dropped,    \* tab -> was a StorageEvent dispatched while not listening?
    foreign,    \* number of writes by other contexts so far
    lastOp      \* what the last step did (its calls, in order)

vars == <<build, store, status, cfg, value, updaters, listening, hooks,
          pending, dropped, foreign, lastOp>>

NoEvent == [area |-> "-", key |-> "-", newValue |-> NoItem]

\* no argument: the step is not a setSyncValue call
NoArg == [fn |-> FALSE, lit |-> 0, name |-> "-"]

\* the record of one step: the calls it made.  `arg` is setSyncValue's
\* argument, `onUpdate` the onUpdate calls, `order` the kinds of all the
\* step's calls in the order they were made.
Op(op, tab, threw, setItems, notified, onInit, ev, handled) ==
    [op |-> op, tab |-> tab, threw |-> threw, setItems |-> setItems,
     notified |-> notified, onInit |-> onInit, ev |-> ev, handled |-> handled,
     arg |-> NoArg, onUpdate |-> <<>>, order |-> <<>>]

HasStore(c) == c.storage # NoStorage /\ c.key # NoKey


\* ------------------------------------------------- the Storage collaborator
\* Storage.setItem calls, applied in order
RECURSIVE StoreAfter(_, _)
StoreAfter(st, calls) ==
    IF calls = <<>> THEN st
    ELSE StoreAfter([st EXCEPT ![<<Head(calls).area, Head(calls).key>>] = Head(calls).raw],
                    Tail(calls))

\* the StorageEvents the calls raise: one per call that changes an item of a
\* Storage area of the browser
RECURSIVE EventsOf(_, _)
EventsOf(st, calls) ==
    IF calls = <<>> THEN <<>>
    ELSE LET c == Head(calls)
             cell == <<c.area, c.key>>
             ev == IF IsStorageInstance(c.area) /\ st[cell] # c.raw
                   THEN <<[area |-> c.area, key |-> c.key, newValue |-> c.raw]>>
                   ELSE <<>>
         IN ev \o EventsOf([st EXCEPT ![cell] = c.raw], Tail(calls))

\* a StorageEvent goes to every other open tab of the origin
Broadcast(pend, sender, evs) ==
    [t \in Tabs |-> IF t # sender /\ status[t] = "live" THEN pend[t] \o evs ELSE pend[t]]

Room(sender, evs) ==
    \A t \in Tabs \ {sender} :
        status[t] = "live" => Len(pending[t]) + Len(evs) <= MaxPending

\* --------------------------------------------------- createSyncState's body
\* (mutant: the check is left out)
MissingKeyNever(b, c) == FALSE

\* ts build:  if (storage instanceof Storage && !key) throw ...
\* lib build: if (storage && !key) throw ...
MissingKey(b, c) ==
    IF b = "ts"
    THEN IsStorageInstance(c.storage) /\ c.key = NoKey
    ELSE c.storage # NoStorage /\ c.key = NoKey

\* (mutant: the item is set twice)
PersistToStorageTwice(c, newValue) ==
    IF HasStore(c)
    THEN <<[area |-> c.storage, key |-> c.key, raw |-> Serialize(newValue)],
           [area |-> c.storage, key |-> c.key, raw |-> Serialize(newValue)]>>
    ELSE <<>>

\* (mutant: the item is set to the serialized defaultValue)
PersistToStorageDefault(c, newValue) ==
    IF HasStore(c)
    THEN <<[area |-> c.storage, key |-> c.key, raw |-> Serialize(c.defaultValue)]>>
    ELSE <<>>

\* persistToStorage(newValue): the setItem calls it makes
PersistToStorage(c, newValue) ==
    IF HasStore(c)
    THEN <<[area |-> c.storage, key |-> c.key, raw |-> Serialize(newValue)]>>
    ELSE <<>>

\* getInitialValue() of the lib build: [threw, value, setItems]
GetInitialValue(c, st) ==
    LET storageValue == IF HasStore(c)
                        THEN Deserialize(st[<<c.storage, c.key>>])
                        ELSE NullValue
    IN IF HasStore(c) /\ storageValue = ThrowMark
       THEN [threw |-> TRUE, value |-> c.defaultValue, setItems |-> <<>>]
       ELSE IF HasStore(c) /\ storageValue # NullValue
       THEN [threw |-> FALSE, value |-> storageValue, setItems |-> <<>>]
       ELSE [threw |-> FALSE, value |-> c.defaultValue,
             setItems |-> PersistToStorage(c, c.defaultValue)]

\* the ts build: persistToStorage(defaultValue); let value = defaultValue
DefaultAsInitialValue(c) ==
    [threw |-> FALSE, value |-> c.defaultValue,
     setItems |-> PersistToStorage(c, c.defaultValue)]

InitialValue(b, c, st) ==
    IF b = "ts" THEN DefaultAsInitialValue(c) ELSE GetInitialValue(c, st)

\* onInit?.(value): the ts build has no such option
OnInitCalls(b, v) == IF b = "ts" THEN <<>> ELSE <<v>>

\* (mutant: onUpdate is called twice)
OnUpdateCallsTwice(b, v) == IF b = "next" THEN <<v, v>> ELSE <<>>

\* onUpdate?.(value) at the end of setSyncValue: only the declared build has
\* the option; neither the ts nor the lib build calls it
OnUpdateCalls(b, v) == IF b = "next" THEN <<v>> ELSE <<>>

\* ------------------------------------------------------------- the hook
NoHook == [phase |-> "unmounted", mapper |-> NoMapper, state |-> 0]

\* (mutant: one projection, that of the first call site, is shared by all)
StateUpdaterSharedMapper(hk, h, newValue) ==
    [hk EXCEPT ![h].state = Project(hk[1].mapper, newValue)]

\* (mutant: the mapper is not applied)
StateUpdaterRaw(hk, h, newValue) == [hk EXCEPT ![h].state = newValue]

\* stateUpdater: setState(() => mapperRef.current ? mapperRef.current(newValue) : newValue)
StateUpdater(hk, h, newValue) ==
    [hk EXCEPT ![h].state = Project(hk[h].mapper, newValue)]

\* callUpdaters: updaters.forEach((updater) => updater(newValue))
RECURSIVE CallUpdatersFrom(_, _, _, _)
CallUpdatersFrom(us, i, newValue, hk) ==
    IF i > Len(us) THEN hk
    ELSE CallUpdatersFrom(us, i + 1, newValue, StateUpdater(hk, us[i], newValue))

\* (mutant: only the first updater is called)
CallUpdatersFirstOnly(us, newValue, hk) ==
    IF us = <<>> THEN hk ELSE StateUpdater(hk, us[1], newValue)

CallUpdaters(us, newValue, hk) == CallUpdatersFrom(us, 1, newValue, hk)

\* updaters.indexOf(stateUpdater): 0 stands for JavaScript's -1
IndexOf(us, h) ==
    IF \E i \in 1..Len(us) : us[i] = h
    THEN CHOOSE i \in 1..Len(us) : us[i] = h /\ \A j \in 1..(i - 1) : us[j] # h
    ELSE 0

\* (mutant: the last element is moved into the place of the removed one)
Splice1SwapRemove(us, i) ==
    LET at == IF i = 0 THEN Len(us) ELSE i
    IN IF us = <<>> THEN us
       ELSE [j \in 1..(Len(us) - 1) |-> IF j = at THEN us[Len(us)] ELSE us[j]]

\* updaters.splice(index, 1): index -1 counts from the end
Splice1(us, i) ==
    LET at == IF i = 0 THEN Len(us) ELSE i
    IN IF us = <<>> THEN us
       ELSE [j \in 1..(Len(us) - 1) |-> IF j < at THEN us[j] ELSE us[j + 1]]


\* -------------------------------------------------------------- the steps
NoCfg == [storage |-> NoStorage, key |-> NoKey, defaultValue |-> 0]

Init ==
    /\ build \in {"ts", "lib"}
    /\ store = [c \in Cells |-> NoItem]
    /\ status = [t \in Tabs |-> "none"]
    /\ cfg = [t \in Tabs |-> NoCfg]
    /\ value = [t \in Tabs |-> 0]
    /\ updaters = [t \in Tabs |-> <<>>]
    /\ listening = [t \in Tabs |-> FALSE]
    /\ hooks = [t \in Tabs |-> [h \in Hooks |-> NoHook]]
    /\ pending = [t \in Tabs |-> <<>>]
    /\ dropped = [t \in Tabs |-> FALSE]
    /\ foreign = 0
    /\ lastOp = Op("init", 0, FALSE, <<>>, <<>>, <<>>, NoEvent, FALSE)

\* createSyncState(options), run once by tab t's script
CreateSyncState(t, c) ==
    /\ status[t] = "none"
    /\ cfg' = [cfg EXCEPT ![t] = c]
    /\ IF MissingKey(build, c)
       THEN /\ status' = [status EXCEPT ![t] = "failed"]
            /\ lastOp' = Op("create", t, TRUE, <<>>, <<>>, <<>>, NoEvent, FALSE)
            /\ UNCHANGED <<store, value, pending>>
       ELSE LET init == InitialValue(build, c, store)
                evs == EventsOf(store, init.setItems)
            IN /\ Room(t, evs)
               /\ IF init.threw
                  THEN /\ status' = [status EXCEPT ![t] = "failed"]
                       /\ lastOp' = Op("create", t, TRUE, <<>>, <<>>, <<>>, NoEvent, FALSE)
                       /\ UNCHANGED <<store, value, pending>>
                  ELSE /\ status' = [status EXCEPT ![t] = "live"]
                       /\ value' = [value EXCEPT ![t] = init.value]
                       /\ store' = StoreAfter(store, init.setItems)
                       /\ pending' = Broadcast(pending, t, evs)
                       /\ lastOp' = Op("create", t, FALSE, init.setItems, <<>>,
                                       OnInitCalls(build, init.value), NoEvent, FALSE)
    /\ UNCHANGED <<build, updaters, listening, hooks, dropped, foreign>>

\* (mutant: a function argument is applied to defaultValue)
NewValueOfStale(t, arg) ==
    IF arg.fn THEN ApplyFn(arg.name, cfg[t].defaultValue) ELSE arg.lit

\* typeof newValue === 'function' ? newValue(value) : newValue
NewValueOf(t, arg) ==
    IF arg.fn THEN ApplyFn(arg.name, value[t]) ELSE arg.lit

\* the kinds of setSyncValue's calls, in the order of its statements:
\* callUpdaters(value); persistToStorage(value); then onUpdate
CallKinds(notified, setItems, onUpdate) ==
    [i \in 1..Len(notified) |-> "updater"]
        \o [i \in 1..Len(setItems) |-> "setItem"]
        \o [i \in 1..Len(onUpdate) |-> "onUpdate"]

\* setSyncValue(newValue) in tab t
SetSyncValue(t, arg) ==
    /\ status[t] = "live"
    /\ LET newValue == NewValueOf(t, arg)
           calls == PersistToStorage(cfg[t], newValue)
           evs == EventsOf(store, calls)
           onUpdate == OnUpdateCalls(build, newValue)
       IN /\ Room(t, evs)
          /\ value' = [value EXCEPT ![t] = newValue]
          /\ hooks' = [hooks EXCEPT ![t] = CallUpdaters(updaters[t], newValue, hooks[t])]
          /\ store' = StoreAfter(store, calls)
          /\ pending' = Broadcast(pending, t, evs)
          /\ lastOp' = [Op("set", t, FALSE, calls, updaters[t], <<>>, NoEvent, FALSE)
                          EXCEPT !.arg = arg, !.onUpdate = onUpdate,
                                 !.order = CallKinds(updaters[t], calls, onUpdate)]
    /\ UNCHANGED <<build, status, cfg, updaters, listening, dropped, foreign>>

\* (mutant: the item is set before the updaters are called)
SetSyncValueFailingPersistFirst(t, arg) ==
    /\ status[t] = "live"
    /\ HasStore(cfg[t])
    /\ LET newValue == NewValueOf(t, arg)
           calls == PersistToStorage(cfg[t], newValue)
       IN /\ value' = [value EXCEPT ![t] = newValue]
          /\ lastOp' = [Op("set", t, TRUE, calls, <<>>, <<>>, NoEvent, FALSE)
                          EXCEPT !.arg = arg, !.order = CallKinds(<<>>, calls, <<>>)]
    /\ UNCHANGED <<build, store, status, cfg, updaters, listening, hooks, pending,
                   dropped, foreign>>

\* setSyncValue(newValue) in tab t when storage.setItem throws (the quota is
\* exceeded, the storage is disabled): the statements before the call have
\* run, the item is as it was, the exception leaves setSyncValue
SetSyncValueFailing(t, arg) ==
    /\ status[t] = "live"
    /\ HasStore(cfg[t])
    /\ LET newValue == NewValueOf(t, arg)
           calls == PersistToStorage(cfg[t], newValue)
       IN /\ value' = [value EXCEPT ![t] = newValue]
          /\ hooks' = [hooks EXCEPT ![t] = CallUpdaters(updaters[t], newValue, hooks[t])]
          /\ lastOp' = [Op("set", t, TRUE, calls, updaters[t], <<>>, NoEvent, FALSE)
                          EXCEPT !.arg = arg, !.order = CallKinds(updaters[t], calls, <<>>)]
    /\ UNCHANGED <<build, store, status, cfg, updaters, listening, pending, dropped, foreign>>

\* (mutant: storage area and key are not matched)
StorageEventListenerAnyKey(t, ev) ==
    LET newValue == Deserialize(ev.newValue)
    IN IF newValue # NullValue /\ newValue # ThrowMark
       THEN [value |-> newValue,
             hooks |-> CallUpdaters(updaters[t], newValue, hooks[t]),
             notified |-> updaters[t], threw |-> FALSE]
       ELSE [value |-> value[t], hooks |-> hooks[t], notified |-> <<>>,
             threw |-> newValue = ThrowMark]

\* (mutant: a null deserialization is not skipped)
StorageEventListenerNoNullCheck(t, ev) ==
    LET newValue == Deserialize(ev.newValue)
        matched == ev.area = cfg[t].storage /\ ev.key = cfg[t].key
    IN IF matched /\ newValue # ThrowMark
       THEN [value |-> newValue,
             hooks |-> CallUpdaters(updaters[t], newValue, hooks[t]),
             notified |-> updaters[t], threw |-> FALSE]
       ELSE [value |-> value[t], hooks |-> hooks[t], notified |-> <<>>,
             threw |-> matched /\ newValue = ThrowMark]

\* storageEventListener(storageEvent): [value, hooks, notified, threw] after it;
\* deserialize runs, and may throw, only for a matching event
StorageEventListener(t, ev) ==
    LET newValue == Deserialize(ev.newValue)
        matched == ev.area = cfg[t].storage /\ ev.key = cfg[t].key
    IN IF matched /\ newValue # NullValue /\ newValue # ThrowMark
       THEN [value |-> newValue,
             hooks |-> CallUpdaters(updaters[t], newValue, hooks[t]),
             notified |-> updaters[t], threw |-> FALSE]
       ELSE [value |-> value[t], hooks |-> hooks[t], notified |-> <<>>,
             threw |-> matched /\ newValue = ThrowMark]

\* (mutant: the listener persists the value it took over)
ListenerSetItemsEcho(t, ev) == PersistToStorage(cfg[t], StorageEventListener(t, ev).value)

\* the setItem calls storageEventListener makes: none
ListenerSetItems(t, ev) == <<>>

\* the browser dispatches the oldest queued StorageEvent on tab t's window
DispatchStorageEvent(t) ==
    /\ pending[t] # <<>>
    /\ LET ev == Head(pending[t])
           after == StorageEventListener(t, ev)
           calls == IF listening[t] THEN ListenerSetItems(t, ev) ELSE <<>>
       IN /\ IF listening[t]
             THEN /\ value' = [value EXCEPT ![t] = after.value]
                  /\ hooks' = [hooks EXCEPT ![t] = after.hooks]
                  /\ lastOp' = Op("event", t, after.threw, calls, after.notified, <<>>, ev, TRUE)
                  /\ UNCHANGED dropped
             ELSE /\ dropped' = [dropped EXCEPT ![t] = TRUE]
                  /\ lastOp' = Op("event", t, FALSE, <<>>, <<>>, <<>>, ev, FALSE)
                  /\ UNCHANGED <<value, hooks>>
          /\ store' = StoreAfter(store, calls)
          /\ pending' = Broadcast([pending EXCEPT ![t] = Tail(pending[t])], t,
                                  EventsOf(store, calls))
    /\ UNCHANGED <<build, status, cfg, updaters, listening, foreign>>

\* (mutant: the state cell starts from defaultValue)
RenderFromDefault(t, h, m) ==
    /\ status[t] = "live"
    /\ hooks[t][h].phase = "unmounted"
    /\ hooks' = [hooks EXCEPT ![t][h] =
                    [phase |-> "rendered", mapper |-> m,
                     state |-> Project(m, cfg[t].defaultValue)]]
    /\ lastOp' = Op("other", 0, FALSE, <<>>, <<>>, <<>>, NoEvent, FALSE)
    /\ UNCHANGED <<build, store, status, cfg, value, updaters, listening, pending, dropped, foreign>>

\* first render of a component calling useSyncValue(mapper): useState's initializer
Render(t, h, m) ==
    /\ status[t] = "live"
    /\ hooks[t][h].phase = "unmounted"
    /\ hooks' = [hooks EXCEPT ![t][h] =
                    [phase |-> "rendered", mapper |-> m, state |-> Project(m, value[t])]]
    /\ lastOp' = Op("other", 0, FALSE, <<>>, <<>>, <<>>, NoEvent, FALSE)
    /\ UNCHANGED <<build, store, status, cfg, value, updaters, listening, pending, dropped, foreign>>

\* the effect after the first commit: register stateUpdater, maybe start listening
Effect(t, h) ==
    /\ hooks[t][h].phase = "rendered"
    /\ LET us == Append(updaters[t], h)
       IN /\ updaters' = [updaters EXCEPT ![t] = us]
          /\ listening' = [listening EXCEPT ![t] =
                              IF Len(us) = 1 /\ HasStore(cfg[t]) THEN TRUE ELSE @]
    /\ hooks' = [hooks EXCEPT ![t][h].phase = "mounted"]
    /\ lastOp' = Op("other", 0, FALSE, <<>>, <<>>, <<>>, NoEvent, FALSE)
    /\ UNCHANGED <<build, store, status, cfg, value, pending, dropped, foreign>>

\* a later render with another mapper: mapperRef.current = mapper
Rerender(t, h, m) ==
    /\ hooks[t][h].phase \in {"rendered", "mounted"}
    /\ hooks[t][h].mapper # m
    /\ hooks' = [hooks EXCEPT ![t][h].mapper = m]
    /\ lastOp' = Op("other", 0, FALSE, <<>>, <<>>, <<>>, NoEvent, FALSE)
    /\ UNCHANGED <<build, store, status, cfg, value, updaters, listening, pending, dropped, foreign>>

\* (mutant: the storage listener is never removed)
CleanupKeepsListening(t, h) ==
    /\ hooks[t][h].phase = "mounted"
    /\ updaters' = [updaters EXCEPT ![t] = Splice1(updaters[t], IndexOf(updaters[t], h))]
    /\ hooks' = [hooks EXCEPT ![t][h] = NoHook]
    /\ lastOp' = Op("other", 0, FALSE, <<>>, <<>>, <<>>, NoEvent, FALSE)
    /\ UNCHANGED <<build, store, status, cfg, value, listening, pending, dropped, foreign>>

\* the effect's cleanup at unmount: unregister, maybe stop listening
Cleanup(t, h) ==
    /\ hooks[t][h].phase = "mounted"
    /\ LET us == Splice1(updaters[t], IndexOf(updaters[t], h))
       IN /\ updaters' = [updaters EXCEPT ![t] = us]
          /\ listening' = [listening EXCEPT ![t] =
                              IF Len(us) = 0 /\ HasStore(cfg[t]) THEN FALSE ELSE @]
    /\ hooks' = [hooks EXCEPT ![t][h] = NoHook]
    /\ lastOp' = Op("other", 0, FALSE, <<>>, <<>>, <<>>, NoEvent, FALSE)
    /\ UNCHANGED <<build, store, status, cfg, value, pending, dropped, foreign>>

\* another context of the origin sets or removes an item
ForeignWrite(cell, raw) ==
    /\ foreign < MaxForeign
    /\ foreign' = foreign + 1
    /\ store[cell] # raw
    /\ LET evs == <<[area |-> cell[1], key |-> cell[2], newValue |-> raw]>>
       IN /\ Room(0, evs)
          /\ pending' = Broadcast(pending, 0, evs)
    /\ store' = [store EXCEPT ![cell] = raw]
    /\ lastOp' = Op("other", 0, FALSE, <<>>, <<>>, <<>>, NoEvent, FALSE)
    /\ UNCHANGED <<build, status, cfg, value, updaters, listening, hooks, dropped>>

Options == [storage : StorageOptions, key : KeyOptions, defaultValue : Values]

\* one tab with its hooks, and the rest of the origin writing to the Storage areas
Next ==
    \/ \E c \in Options : CreateSyncState(1, c)
    \/ \E arg \in SetArgs : SetSyncValue(1, arg)
    \/ \E arg \in SetArgs : SetSyncValueFailing(1, arg)
    \/ DispatchStorageEvent(1)
    \/ \E h \in Hooks, m \in Mappers : Render(1, h, m)
    \/ \E h \in Hooks : Effect(1, h)
    \/ \E h \in Hooks, m \in Mappers : Rerender(1, h, m)
    \/ \E h \in Hooks : Cleanup(1, h)
    \/ \E cell \in SharedCells : \E raw \in ForeignRaws(cell) : ForeignWrite(cell, raw)

Spec == Init /\ [][Next]_vars

\* the same tab running the declared build
InitNext ==
    /\ build = "next"
    /\ store = [c \in Cells |-> NoItem]
    /\ status = [t \in Tabs |-> "none"]
    /\ cfg = [t \in Tabs |-> NoCfg]
    /\ value = [t \in Tabs |-> 0]
    /\ updaters = [t \in Tabs |-> <<>>]
    /\ listening = [t \in Tabs |-> FALSE]
    /\ hooks = [t \in Tabs |-> [h \in Hooks |-> NoHook]]
    /\ pending = [t \in Tabs |-> <<>>]
    /\ dropped = [t \in Tabs |-> FALSE]
    /\ foreign = 0
    /\ lastOp = Op("init", 0, FALSE, <<>>, <<>>, <<>>, NoEvent, FALSE)

SpecNext == InitNext /\ [][Next]_vars

\* The effect's cleanup is a function; React calls it once per effect, any
\* other holder of it may call it again.  First call, the hook staying known
\* as torn down:
Teardown(t, h) ==
    /\ hooks[t][h].phase = "mounted"
    /\ LET us == Splice1(updaters[t], IndexOf(updaters[t], h))
       IN /\ updaters' = [updaters EXCEPT ![t] = us]
          /\ listening' = [listening EXCEPT ![t] =
                              IF Len(us) = 0 /\ HasStore(cfg[t]) THEN FALSE ELSE @]
    /\ hooks' = [hooks EXCEPT ![t][h] = [NoHook EXCEPT !.phase = "torndown"]]
    /\ lastOp' = Op("other", 0, FALSE, <<>>, <<>>, <<>>, NoEvent, FALSE)
    /\ UNCHANGED <<build, store, status, cfg, value, pending, dropped, foreign>>

\* the same cleanup function called again: stateUpdater is no longer in
\* updaters, indexOf gives -1
TeardownAgain(t, h) ==
    /\ hooks[t][h].phase = "torndown"
    /\ LET us == Splice1(updaters[t], IndexOf(updaters[t], h))
       IN /\ updaters' = [updaters EXCEPT ![t] = us]
          /\ listening' = [listening EXCEPT ![t] =
                              IF Len(us) = 0 /\ HasStore(cfg[t]) THEN FALSE ELSE @]
    /\ lastOp' = Op("other", 0, FALSE, <<>>, <<>>, <<>>, NoEvent, FALSE)
    /\ UNCHANGED <<build, store, status, cfg, value, hooks, pending, dropped, foreign>>

NextTeardown ==
    \/ \E c \in Options : CreateSyncState(1, c)
    \/ \E arg \in SetArgs : SetSyncValue(1, arg)
    \/ \E h \in Hooks, m \in Mappers : Render(1, h, m)
    \/ \E h \in Hooks : Effect(1, h)
    \/ \E h \in Hooks : Teardown(1, h)
    \/ \E h \in Hooks : TeardownAgain(1, h)

SpecTeardown == Init /\ [][NextTeardown]_vars

\* every tab with one unmapped hook, all on localStorage under "k"
SharedOptions == [storage : {"local"}, key : {"k"}, defaultValue : Values]

NextTabs ==
    \/ \E t \in Tabs, c \in SharedOptions : CreateSyncState(t, c)
    \/ \E t \in Tabs, arg \in SetArgs : SetSyncValue(t, arg)
    \/ \E t \in Tabs : DispatchStorageEvent(t)
    \/ \E t \in Tabs : Render(t, 1, NoMapper)
    \/ \E t \in Tabs : Effect(t, 1)
    \/ \E t \in Tabs : Cleanup(t, 1)
    \/ \E raw \in ForeignRaws(<<"local", "k">>) : ForeignWrite(<<"local", "k">>, raw)

SpecTabs == Init /\ [][NextTabs]_vars


\* ------------------------------------------ fan-out with synchronous renders
\* When React renders synchronously (setState outside a batched handler), the
\* setState of a stateUpdater commits a render before it returns, and that
\* commit may run another component's effect cleanup, or a pending effect,
\* while callUpdaters' forEach is still walking `updaters`.
HooksMore == 1..(NumHooks + 1)

\* what the stateUpdater of hook `by` sets off: nothing, the cleanup of hook
\* `hook` (its component unmounts), or the effect of hook `hook`
NoReaction == [kind |-> "none", by |-> 0, hook |-> 0]
Reactions == {NoReaction} \cup [kind : {"detach", "attach"}, by : HooksMore, hook : HooksMore]

\* s = [us, hk, lst, log]: updaters, the hooks, listening, the calls so far.
\* The reaction r to the call of hook h's stateUpdater, applied to s
React(r, h, c, s) ==
    IF r.by = h /\ r.kind = "detach" /\ r.hook # h /\ s.hk[r.hook].phase = "mounted"
    THEN LET us == Splice1(s.us, IndexOf(s.us, r.hook))
         IN [s EXCEPT !.us = us,
                      !.lst = IF Len(us) = 0 /\ HasStore(c) THEN FALSE ELSE @,
                      !.hk = [@ EXCEPT ![r.hook] = NoHook]]
    ELSE IF r.by = h /\ r.kind = "attach" /\ s.hk[r.hook].phase = "rendered"
    THEN LET us == Append(s.us, r.hook)
         IN [s EXCEPT !.us = us,
                      !.lst = IF Len(us) = 1 /\ HasStore(c) THEN TRUE ELSE @,
                      !.hk = [@ EXCEPT ![r.hook].phase = "mounted"]]
    ELSE s

\* updaters.forEach(updater => updater(newValue)) on the array as it is while
\* the callbacks change it: the indices 1..len0 of the start are visited in
\* order, an index past the current end is passed over
RECURSIVE ForEachLive(_, _, _, _, _, _)
ForEachLive(s, k, len0, newValue, c, r) ==
    IF k > len0 THEN s
    ELSE IF k > Len(s.us) THEN ForEachLive(s, k + 1, len0, newValue, c, r)
    ELSE LET h == s.us[k]
             called == [s EXCEPT !.hk = StateUpdater(s.hk, h, newValue),
                                 !.log = Append(@, h)]
         IN ForEachLive(React(r, h, c, called), k + 1, len0, newValue, c, r)

\* setSyncValue(newValue) in tab t, React rendering synchronously
SetSyncValueSync(t, arg, r) ==
    /\ status[t] = "live"
    /\ LET newValue == NewValueOf(t, arg)
           s0 == [us |-> updaters[t], hk |-> hooks[t], lst |-> listening[t], log |-> <<>>]
           s1 == ForEachLive(s0, 1, Len(updaters[t]), newValue, cfg[t], r)
           calls == PersistToStorage(cfg[t], newValue)
           evs == EventsOf(store, calls)
       IN /\ Room(t, evs)
          /\ r.kind # "none" => s1 # ForEachLive(s0, 1, Len(updaters[t]), newValue, cfg[t], NoReaction)
          /\ value' = [value EXCEPT ![t] = newValue]
          /\ hooks' = [hooks EXCEPT ![t] = s1.hk]
          /\ updaters' = [updaters EXCEPT ![t] = s1.us]
          /\ listening' = [listening EXCEPT ![t] = s1.lst]
          /\ store' = StoreAfter(store, calls)
          /\ pending' = Broadcast(pending, t, evs)
          /\ lastOp' = [Op("set", t, FALSE, calls, s1.log, <<>>, NoEvent, FALSE)
                          EXCEPT !.arg = arg, !.order = CallKinds(s1.log, calls, <<>>)]
    /\ UNCHANGED <<build, status, cfg, dropped, foreign>>

InitFanOut ==
    /\ build \in {"ts", "lib"}
    /\ store = [c \in Cells |-> NoItem]
    /\ status = [t \in Tabs |-> "none"]
    /\ cfg = [t \in Tabs |-> NoCfg]
    /\ value = [t \in Tabs |-> 0]
    /\ updaters = [t \in Tabs |-> <<>>]
    /\ listening = [t \in Tabs |-> FALSE]
    /\ hooks = [t \in Tabs |-> [h \in HooksMore |-> NoHook]]
    /\ pending = [t \in Tabs |-> <<>>]
    /\ dropped = [t \in Tabs |-> FALSE]
    /\ foreign = 0
    /\ lastOp = Op("init", 0, FALSE, <<>>, <<>>, <<>>, NoEvent, FALSE)

FanOutOptions == [storage : {NoStorage, "local"}, key : {"k"}, defaultValue : {0}]

\* one tab with unmapped hooks, React rendering synchronously inside setSyncValue
NextFanOut ==
    \/ \E c \in FanOutOptions : CreateSyncState(1, c)
    \/ \E arg \in SetArgs, r \in Reactions : SetSyncValueSync(1, arg, r)
    \/ DispatchStorageEvent(1)
    \/ \E h \in HooksMore : Render(1, h, NoMapper)
    \/ \E h \in HooksMore : Effect(1, h)
    \/ \E h \in HooksMore : Cleanup(1, h)
    \/ \E raw \in ForeignRaws(<<"local", "k">>) : ForeignWrite(<<"local", "k">>, raw)

SpecFanOut == InitFanOut /\ [][NextFanOut]_vars

\* ------------------------------------------------- rebinding the projection
\* one tab whose consumers all render first without a mapper and are given
\* one by a later render: a hook that has a mapper got it while attached or
\* about to attach, never at its first render
NextRebind ==
    \/ \E c \in Options : CreateSyncState(1, c)
    \/ \E arg \in SetArgs : SetSyncValue(1, arg)
    \/ DispatchStorageEvent(1)
    \/ \E h \in Hooks : Render(1, h, NoMapper)
    \/ \E h \in Hooks : Effect(1, h)
    \/ \E h \in Hooks, m \in Mappers : Rerender(1, h, m)
    \/ \E h \in Hooks : Cleanup(1, h)
    \/ \E cell \in SharedCells : \E raw \in ForeignRaws(cell) : ForeignWrite(cell, raw)

SpecRebind == Init /\ [][NextRebind]_vars

\* ------------------------------------------------------------ properties
Attached(t) == {updaters[t][i] : i \in 1..Len(updaters[t])}

Observes(t, v) == \A h \in Attached(t) : hooks[t][h].state = Project(hooks[t][h].mapper, v)

\* the step is tab t's call of createSyncState
CreateStep(t) == status[t] = "none" /\ status'[t] # "none"

Matches(t, ev) == ev.area = cfg[t].storage /\ ev.key = cfg[t].key

\* C1: right after setSyncValue (literal or function form) every attached
\* consumer's observed value is its mapper applied to the instance's value,
\* or the value itself without a mapper.
C1_UpdateReachesEveryConsumer ==
    lastOp.op = "set" => Observes(lastOp.tab, value[lastOp.tab])

C1_Witness ==
    /\ lastOp.op = "set"
    /\ value[1] = 1
    /\ Len(updaters[1]) = 2
    /\ \E h \in Hooks : hooks[1][h].mapper = "double" /\ hooks[1][h].state = 2
    /\ \E h \in Hooks : hooks[1][h].mapper = NoMapper /\ hooks[1][h].state = 1

\* C2: tabs on the same storage and key, each with a listener attached and
\* having missed no event, hold the same value once no StorageEvent is
\* pending, and that value is the deserialized item.  (The reading most
\* favourable to the claim: the build that takes its initial value from
\* storage, only the tabs wrote, and the item deserializes.)
C2_TabsConverge ==
    ( /\ \A t \in Tabs : /\ status[t] = "live"
                         /\ HasStore(cfg[t])
                         /\ updaters[t] # <<>>
                         /\ listening[t]
                         /\ ~dropped[t]
                         /\ pending[t] = <<>>
      /\ build = "lib"
      /\ foreign = 0
      /\ Deserialize(store[<<"local", "k">>]) \in Values )
    => \A t \in Tabs : value[t] = Deserialize(store[<<"local", "k">>])

\* C3: a StorageEvent for the instance's storage area and key whose newValue
\* deserializes to a non-null v sets value to v and every attached consumer's
\* observed value to its mapper applied to v.
C3_MatchingEventApplied ==
    ( /\ lastOp.op = "event"
      /\ lastOp.handled
      /\ Matches(lastOp.tab, lastOp.ev)
      /\ Deserialize(lastOp.ev.newValue) \in Values )
    => /\ value[lastOp.tab] = Deserialize(lastOp.ev.newValue)
       /\ Observes(lastOp.tab, Deserialize(lastOp.ev.newValue))

C3_Witness ==
    /\ lastOp.op = "event"
    /\ lastOp.handled
    /\ Matches(1, lastOp.ev)
    /\ lastOp.ev.newValue = "1"
    /\ cfg[1].defaultValue = 0
    /\ value[1] = 1
    /\ Len(updaters[1]) = 2
    /\ \E h \in Hooks : hooks[1][h].mapper = "double" /\ hooks[1][h].state = 2

\* C4: handling a StorageEvent, whatever it carries, makes no setItem call
\* and leaves the Storage areas as they were.
C4_EventNeverWrites ==
    [][lastOp'.op = "event" => (lastOp'.setItems = <<>> /\ store' = store)]_vars

C4_Witness ==
    /\ lastOp.op = "event"
    /\ lastOp.handled
    /\ lastOp.notified # <<>>
    /\ value[1] # cfg[1].defaultValue

\* C5: a StorageEvent of another storage area or another key changes neither
\* the value, nor any consumer's observed value, nor the Storage areas, and
\* no updater is called.
C5_MismatchIgnored ==
    [][\A t \in Tabs :
          (lastOp'.op = "event" /\ lastOp'.tab = t /\ ~Matches(t, lastOp'.ev))
          => (/\ value' = value
              /\ hooks' = hooks
              /\ store' = store
              /\ lastOp'.notified = <<>>)]_vars

C5_Witness ==
    /\ lastOp.op = "event"
    /\ lastOp.handled
    /\ HasStore(cfg[1])
    /\ lastOp.ev.area = "local"
    /\ lastOp.ev.key = "other"
    /\ Deserialize(lastOp.ev.newValue) \in Values
    /\ Deserialize(lastOp.ev.newValue) # value[1]

\* C6: a StorageEvent of the instance's storage area and key whose newValue
\* is absent, or deserializes to null, keeps the value and every consumer's
\* observed value, and no updater is called.
C6_NullIgnored ==
    [][\A t \in Tabs :
          ( /\ lastOp'.op = "event"
            /\ lastOp'.tab = t
            /\ lastOp'.handled
            /\ Matches(t, lastOp'.ev)
            /\ (lastOp'.ev.newValue = NoItem \/ Deserialize(lastOp'.ev.newValue) = NullValue) )
          => (/\ value' = value
              /\ hooks' = hooks
              /\ lastOp'.notified = <<>>)]_vars

C6_Witness ==
    /\ lastOp.op = "event"
    /\ lastOp.handled
    /\ Matches(1, lastOp.ev)
    /\ lastOp.ev.newValue = "null"
    /\ updaters[1] # <<>>

\* the initial value the construction should resolve, from the item before it
ResolvedInitial(c, st) ==
    IF HasStore(c) /\ Deserialize(st[<<c.storage, c.key>>]) \in Values
    THEN Deserialize(st[<<c.storage, c.key>>])
    ELSE c.defaultValue

\* C7: the initial value is the deserialized item when storage and key are
\* given and the item deserializes to a non-null value, and defaultValue in
\* every other case.
C7_InitialValueResolved ==
    [][\A t \in Tabs :
          (CreateStep(t) /\ status'[t] = "live")
          => value'[t] = ResolvedInitial(cfg'[t], store)]_vars

\* C8: constructing on an item that deserializes to a non-null value makes no
\* setItem call and leaves the item as it was.
C8_NoWriteOverStoredValue ==
    [][\A t \in Tabs :
          ( /\ CreateStep(t)
            /\ HasStore(cfg'[t])
            /\ Deserialize(store[<<cfg'[t].storage, cfg'[t].key>>]) \in Values )
          => (lastOp'.setItems = <<>> /\ store' = store)]_vars

\* The lib build (getInitialValue) resolves the initial value as C7 and C8
\* say; the ts build does not.
LibBuildResolvesInitialValue ==
    [][\A t \in Tabs :
          (build = "lib" /\ CreateStep(t) /\ status'[t] = "live")
          => /\ value'[t] = ResolvedInitial(cfg'[t], store)
             /\ (value'[t] # cfg'[t].defaultValue
                    => (lastOp'.setItems = <<>> /\ store' = store))]_vars

\* C9: constructing with storage and key on an absent item sets the item to
\* serialize(defaultValue) with exactly one setItem call, and sets no other.
C9_DefaultPersistedOnce ==
    [][\A t \in Tabs :
          ( /\ CreateStep(t)
            /\ HasStore(cfg'[t])
            /\ store[<<cfg'[t].storage, cfg'[t].key>>] = NoItem )
          => (/\ status'[t] = "live"
              /\ lastOp'.setItems = <<[area |-> cfg'[t].storage, key |-> cfg'[t].key,
                                       raw |-> Serialize(cfg'[t].defaultValue)]>>
              /\ store' = [store EXCEPT ![<<cfg'[t].storage, cfg'[t].key>>] =
                                          Serialize(cfg'[t].defaultValue)])]_vars

C9_Witness ==
    /\ lastOp.op = "create"
    /\ status[1] = "live"
    /\ HasStore(cfg[1])
    /\ cfg[1].defaultValue = 1
    /\ foreign = 0
    /\ store[<<"local", "k">>] = "1"
    /\ Len(lastOp.setItems) = 1

\* C10: constructing with storage and without key throws; nothing is created,
\* set in storage or called back.
C10_MissingKeyThrows ==
    [][\A t \in Tabs :
          (CreateStep(t) /\ cfg'[t].storage # NoStorage /\ cfg'[t].key = NoKey)
          => (/\ status'[t] = "failed"
              /\ lastOp'.threw
              /\ lastOp'.setItems = <<>>
              /\ lastOp'.onInit = <<>>
              /\ UNCHANGED <<store, value, updaters, listening, hooks, pending>>)]_vars

\* Either build throws, with nothing created, set or called back, when the
\* storage is an instance of the Storage class (as window.localStorage is);
\* the lib build throws for every storage given without a key.
StorageInstanceWithoutKeyThrows ==
    [][\A t \in Tabs :
          ( /\ CreateStep(t)
            /\ cfg'[t].key = NoKey
            /\ \/ IsStorageInstance(cfg'[t].storage)
               \/ (build = "lib" /\ cfg'[t].storage # NoStorage) )
          => (/\ status'[t] = "failed"
              /\ lastOp'.threw
              /\ lastOp'.setItems = <<>>
              /\ lastOp'.onInit = <<>>
              /\ UNCHANGED <<store, value, updaters, listening, hooks, pending>>)]_vars

\* C11: setSyncValue on an instance with storage and key makes exactly one
\* setItem call, with serialize(the new value) under the instance's key, and
\* when the call returns that item, and no other, has changed to it; when the
\* call throws the Storage areas are as they were.  Without storage or key
\* setSyncValue makes no setItem call and leaves the Storage areas alone.
C11_UpdateWritesOnce ==
    [][\A t \in Tabs :
          (lastOp'.op = "set" /\ lastOp'.tab = t)
          => IF HasStore(cfg[t])
             THEN /\ lastOp'.setItems = <<[area |-> cfg[t].storage, key |-> cfg[t].key,
                                          raw |-> Serialize(value'[t])]>>
                  /\ store' = IF lastOp'.threw THEN store
                              ELSE [store EXCEPT ![<<cfg[t].storage, cfg[t].key>>] =
                                                   Serialize(value'[t])]
             ELSE lastOp'.setItems = <<>> /\ store' = store]_vars

C11_Witness ==
    /\ lastOp.op = "set"
    /\ ~lastOp.threw
    /\ HasStore(cfg[1])
    /\ cfg[1].defaultValue = 0
    /\ value[1] = 1
    /\ Len(lastOp.setItems) = 1
    /\ store[<<cfg[1].storage, cfg[1].key>>] = "1"

\* C12: setSyncValue called with a function f sets the value to f(the value
\* held just before the call), whatever produced that value: when the step
\* before was setSyncValue(v), or a handled StorageEvent that carried v, the
\* value becomes f(v).  Calls compose in call order.
C12_FunctionFormComposes ==
    [][\A t \in Tabs :
          (lastOp'.op = "set" /\ lastOp'.tab = t /\ lastOp'.arg.fn)
          => /\ value'[t] = ApplyFn(lastOp'.arg.name, value[t])
             /\ (lastOp.op = "set" /\ lastOp.tab = t /\ ~lastOp.arg.fn)
                   => value'[t] = ApplyFn(lastOp'.arg.name, lastOp.arg.lit)
             /\ ( /\ lastOp.op = "event" /\ lastOp.tab = t /\ lastOp.handled
                  /\ Matches(t, lastOp.ev)
                  /\ Deserialize(lastOp.ev.newValue) \in Values )
                   => value'[t] = ApplyFn(lastOp'.arg.name, Deserialize(lastOp.ev.newValue))]_vars

\* a function applied to a value that an earlier step, not defaultValue, gave
C12_Witness ==
    /\ lastOp.op = "set"
    /\ lastOp.arg.fn
    /\ lastOp.arg.name = "inc"
    /\ cfg[1].defaultValue = 0
    /\ cfg[1].storage = NoStorage
    /\ value[1] = ApplyFn("inc", ApplyFn("inc", 0))
    /\ value[1] # ApplyFn("inc", 0)

\* C13: a consumer that attaches starts from the value of the most recent
\* update made before its first render, projected by its mapper, whether or
\* not any consumer was attached when the update was made: the first render
\* reads the instance's value, setSyncValue always assigns that value, and
\* that value changes in createSyncState, setSyncValue and
\* storageEventListener only, never when consumers attach or detach.
C13_AttachReadsLatestValue ==
    [][\A t \in Tabs :
          /\ \A h \in Hooks :
                (hooks[t][h].phase = "unmounted" /\ hooks'[t][h].phase = "rendered")
                => hooks'[t][h].state = Project(hooks'[t][h].mapper, value[t])
          /\ value'[t] # value[t] => lastOp'.op \in {"create", "set", "event"}
          /\ (lastOp'.op = "set" /\ lastOp'.tab = t)
                => value'[t] = (IF lastOp'.arg.fn
                                THEN ApplyFn(lastOp'.arg.name, value[t])
                                ELSE lastOp'.arg.lit)]_vars

\* rendered on an empty registry, after an update that had no consumer
\* attached either (nothing was notified), over a default of 0
C13_Witness ==
    /\ cfg[1].defaultValue = 0
    /\ value[1] = 1
    /\ updaters[1] = <<>>
    /\ hooks[1][1].phase = "rendered"
    /\ hooks[1][1].mapper = "double"
    /\ hooks[1][1].state = 2
    /\ hooks[1][2].phase = "unmounted"

\* C14: the registry holds exactly the stateUpdaters of the attachments not
\* yet detached, once each, whatever attaches and detaches came before, a
\* repeated call of a cleanup function included: the repeated call removes
\* no other consumer's stateUpdater.
C14_RegistryIsLiveAttachments ==
    \A t \in Tabs : \A h \in Hooks :
        Cardinality({i \in 1..Len(updaters[t]) : updaters[t][i] = h})
            = (IF hooks[t][h].phase = "mounted" THEN 1 ELSE 0)

\* C15: a construction that succeeds calls onInit exactly once, with the
\* resolved initial value (the deserialized item when there is one,
\* defaultValue otherwise), within createSyncState; no later step calls it.
C15_OnInitOncePerConstruction ==
    [][\A t \in Tabs :
          /\ (CreateStep(t) /\ status'[t] = "live")
                => lastOp'.onInit = <<ResolvedInitial(cfg'[t], store)>>
          /\ lastOp'.op # "create" => lastOp'.onInit = <<>>]_vars

\* The builds that have the onInit option call it as C15 says.
OnInitCalledWhereImplemented ==
    [][\A t \in Tabs :
          /\ (build # "ts" /\ CreateStep(t) /\ status'[t] = "live")
                => /\ lastOp'.onInit = <<ResolvedInitial(cfg'[t], store)>>
                   /\ lastOp'.onInit = <<value'[t]>>
          /\ lastOp'.op # "create" => lastOp'.onInit = <<>>]_vars

C17_ListeningIffRegistered ==
    \A t \in Tabs : listening[t] <=> (HasStore(cfg[t]) /\ updaters[t] # <<>>)

\* listening with one stateUpdater registered, after a StorageEvent went
\* unheard while none was
C17_Witness ==
    /\ HasStore(cfg[1])
    /\ dropped[1]
    /\ listening[1]
    /\ Len(updaters[1]) = 1

\* C18: when storage.setItem throws inside setSyncValue the exception reaches
\* the caller, the value is the new value, every registered stateUpdater has
\* been called with it, the registry and the storage listener are as they
\* were, and a consumer rendering next starts from the new value.
C18_FailedWriteKeepsUpdate ==
    [][\A t \in Tabs :
          /\ (lastOp'.op = "set" /\ lastOp'.tab = t /\ lastOp'.threw)
                => /\ value'[t] = (IF lastOp'.arg.fn
                                   THEN ApplyFn(lastOp'.arg.name, value[t])
                                   ELSE lastOp'.arg.lit)
                   /\ lastOp'.notified = updaters[t]
                   /\ \A i \in 1..Len(updaters[t]) :
                         hooks'[t][updaters[t][i]].state =
                             Project(hooks'[t][updaters[t][i]].mapper, value'[t])
                   /\ UNCHANGED <<updaters, listening, status, cfg>>
          /\ (lastOp.op = "set" /\ lastOp.tab = t /\ lastOp.threw)
                => \A h \in Hooks :
                      (hooks[t][h].phase = "unmounted" /\ hooks'[t][h].phase = "rendered")
                      => hooks'[t][h].state =
                             Project(hooks'[t][h].mapper,
                                     Deserialize(lastOp.setItems[1].raw))]_vars

C18_Witness ==
    /\ lastOp.op = "set"
    /\ lastOp.threw
    /\ cfg[1].defaultValue = 0
    /\ value[1] = 1
    /\ foreign = 0
    /\ store[<<cfg[1].storage, cfg[1].key>>] = "0"
    /\ Len(updaters[1]) = 2
    /\ \E h \in Hooks : hooks[1][h].mapper = "double" /\ hooks[1][h].state = 2

\* how often hook h's stateUpdater occurs in a sequence of them
Occurrences(us, h) == Cardinality({i \in 1..Len(us) : us[i] = h})

\* C19: also when a stateUpdater's call attaches or detaches a consumer while
\* callUpdaters is running, every stateUpdater that was registered when the
\* pass began and is still registered after it has been called exactly once,
\* and none has been called twice.
C19_FanOutCallsEachOnce ==
    [][\A t \in Tabs :
          (lastOp'.op = "set" /\ lastOp'.tab = t)
          => \A h \in HooksMore :
                /\ Occurrences(lastOp'.notified, h) <= 1
                /\ (Occurrences(updaters[t], h) = 1 /\ Occurrences(updaters'[t], h) = 1)
                      => Occurrences(lastOp'.notified, h) = 1]_vars

\* a comes before b in us
Before(us, a, b) == IndexOf(us, a) # 0 /\ IndexOf(us, a) < IndexOf(us, b)

\* C20: every pass of callUpdaters, from setSyncValue or from
\* storageEventListener, calls the stateUpdaters in the order of the registry,
\* which is the order of registration: a step keeps the relative order of
\* the stateUpdaters that stay registered, and puts one that registers after
\* all those.
C20_FanOutInRegistrationOrder ==
    [][\A t \in Tabs :
          /\ lastOp'.op \in {"set", "event"} /\ lastOp'.tab = t
                => \A i, j \in 1..Len(lastOp'.notified) :
                      i < j => Before(updaters[t], lastOp'.notified[i], lastOp'.notified[j])
          /\ \A a, b \in HooksMore :
                ( /\ Before(updaters[t], a, b)
                  /\ Occurrences(updaters'[t], a) = 1
                  /\ Occurrences(updaters'[t], b) = 1
                  /\ hooks'[t][a].phase = "mounted" /\ hooks[t][a].phase = "mounted"
                  /\ hooks'[t][b].phase = "mounted" /\ hooks[t][b].phase = "mounted" )
                => Before(updaters'[t], a, b)
          /\ \A a, n \in HooksMore :
                ( /\ Occurrences(updaters[t], a) = 1 /\ Occurrences(updaters'[t], a) = 1
                  /\ Occurrences(updaters[t], n) = 0 /\ Occurrences(updaters'[t], n) = 1 )
                => Before(updaters'[t], a, n)]_vars

\* three consumers called in the order they registered in, which is not the
\* order of their numbers, after an earlier one unregistered
C20_Witness ==
    /\ lastOp.op = "event"
    /\ lastOp.notified = <<3, 1>>
    /\ updaters[1] = <<3, 1>>
    /\ hooks[1][2].phase = "unmounted"
    /\ value[1] = 1

\* C21: a render that gives an attached consumer another mapper changes
\* neither the registry nor the consumer's state, and calls no stateUpdater;
\* the next pass of callUpdaters with value v sets every registered
\* consumer's state to the mapper it has at that moment applied to v (v
\* itself without a mapper), each consumer by its own mapper.
C21_LatestMapperApplied ==
    [][\A t \in Tabs :
          /\ \A h \in Hooks :
                ( /\ hooks[t][h].phase = "mounted"
                  /\ hooks'[t][h].phase = "mounted"
                  /\ hooks'[t][h].mapper # hooks[t][h].mapper )
                => /\ updaters'[t] = updaters[t]
                   /\ hooks'[t][h].state = hooks[t][h].state
                   /\ value'[t] = value[t]
                   /\ lastOp'.notified = <<>>
          /\ ( /\ lastOp'.op \in {"set", "event"}
               /\ lastOp'.tab = t
               /\ lastOp'.notified # <<>> )
                => /\ updaters'[t] = updaters[t]
                   /\ \A i \in 1..Len(updaters[t]) :
                         LET h == updaters[t][i]
                         IN /\ hooks'[t][h].mapper = hooks[t][h].mapper
                            /\ hooks'[t][h].state = Project(hooks[t][h].mapper, value'[t])]_vars

\* a StorageEvent carrying 1 reached two consumers that both rendered first
\* without a mapper: the one given "double" since holds 2, the other holds 1
C21_Witness ==
    /\ lastOp.op = "event"
    /\ lastOp.notified = <<1, 2>>
    /\ value[1] = 1
    /\ hooks[1][1].mapper = "double"
    /\ hooks[1][1].state = 2
    /\ hooks[1][2].mapper = NoMapper
    /\ hooks[1][2].state = 1

\* C22: when the effect registers a consumer's stateUpdater, the consumer's
\* state is its mapper applied to the instance's value as it is then,
\* whatever setSyncValue calls and handled StorageEvents came between the
\* consumer's first render and its effect.
C22_NoUpdateLostBeforeRegistration ==
    [][\A t \in Tabs : \A h \in Hooks :
          (hooks[t][h].phase = "rendered" /\ hooks'[t][h].phase = "mounted")
          => hooks'[t][h].state = Project(hooks'[t][h].mapper, value'[t])]_vars

=============================================================================
